---- MODULE Spec2Model ----
(***************************************************************************)
(* JDBC read-partitioning planner (OracleInputManager).                    *)
(*                                                                         *)
(* Strings whose characters matter to the code (schema names compared      *)
(* with UPPER(), type strings rewritten by re.sub) are sequences of        *)
(* symbols; numbers carry their Python subtype.                            *)
(***************************************************************************)
EXTENDS Integers, Sequences, FiniteSets, TLC

VARIABLES np, dt, rows, schema, table_list, pk_dict, drp, conns, ret

vars == <<np, dt, rows, schema, table_list, pk_dict, drp, conns, ret>>

None == "None"

\* ------------------------------------------------------------------ bounds
MaxNum == 4
MaxStride == 3
MaxTypeLen == 7
MaxLen == 2
MaxThreshold == 3

\* ------------------------------------------------ partition-count algorithm
\* A number is [kind, n]: an int n, or a float / Decimal of value n/2 (halves
\* are exact in binary floating point and in decimal). A datetime is a day
\* number; an SQL NULL (Python None) is a value of kind "null".
NumericKinds == {"int", "float", "Decimal"}

Num(kind, n) == [kind |-> kind, n |-> n]

IsNumeric(x) == x.kind \in NumericKinds

\* Promotion to the common arbitrary-precision representation, in halves.
Halves(x) == IF x.kind = "int" THEN 2 * x.n ELSE x.n

Ceil(a, b) == (a \div b) + (IF a % b = 0 THEN 0 ELSE 1)

Max(a, b) == IF a >= b THEN a ELSE b

\* The outcome of a call: a returned value or a raised error.
Return(v) == [tag |-> "return", value |-> v]

Raise(e) == [tag |-> "raise", value |-> e]

NotSupportedError == Raise("NotSupportedError")

NumPartitionsTruncating(lo, hi, stride) ==
    IF IsNumeric(lo) /\ IsNumeric(hi) /\ IsNumeric(stride)
    THEN Return(Max(1, (Halves(hi) - Halves(lo)) \div Halves(stride)))
    ELSE NotSupportedError

NumPartitionsAnyDomain(lo, hi, stride) ==
    Return(Max(1, Ceil(Halves(hi) - Halves(lo), Halves(stride))))

_read_partitioning_num_partitions(lo, hi, stride) ==
    IF IsNumeric(lo) /\ IsNumeric(hi) /\ IsNumeric(stride)
    THEN Return(Max(1, Ceil(Halves(hi) - Halves(lo), Halves(stride))))
    ELSE NotSupportedError

\* Inputs of the pure function: every subtype, whole and half values.
NumericValues ==
    {Num("int", n) : n \in -MaxNum..MaxNum}
        \cup {Num(k, n) : k \in {"float", "Decimal"}, n \in -MaxNum..MaxNum}

DatetimeValues == {Num("datetime", n) : n \in 0..MaxNum}

Strides ==
    {Num("int", n) : n \in 1..MaxStride}
        \cup {Num(k, n) : k \in {"float", "Decimal"}, n \in 1..(2 * MaxStride)}

\* ---------------------------------------------------------- type normalizer
\* [0-9], over the digit the input strings are built from.
Digits == {"3"}

TypeHeads == {"TIMESTAMP", "INTERVAL DAY", "INTERVAL YEAR", "NUMBER"}

TypeTailSymbols == {"(", ")", " TO SECOND"} \cup Digits

RECURSIVE ReSubParenDigit(_)
\* re.sub(r"\([0-9]\)", "", s): a left-to-right scan that drops each
\* non-overlapping "(", digit, ")" and keeps every other symbol.
ReSubParenDigit(s) ==
    IF s = <<>> THEN <<>>
    ELSE IF Len(s) >= 3 /\ s[1] = "(" /\ s[2] \in Digits /\ s[3] = ")"
         THEN ReSubParenDigit(SubSeq(s, 4, Len(s)))
         ELSE <<s[1]>> \o ReSubParenDigit(Tail(s))

StartsWith(s, word) == Len(s) >= 1 /\ s[1] = word

NormaliseTimestampOnly(data_type) ==
    IF StartsWith(data_type, "TIMESTAMP")
    THEN ReSubParenDigit(data_type)
    ELSE data_type

_normalise_oracle_data_type(data_type) ==
    IF StartsWith(data_type, "TIMESTAMP") \/ StartsWith(data_type, "INTERVAL DAY")
    THEN ReSubParenDigit(data_type)
    ELSE data_type

\* ------------------------------------------------------------ the database
\* Python's None / an SQL result without a row, and a value that is there.
Absent == [present |-> FALSE, v |-> <<>>]

Present(x) == [present |-> TRUE, v |-> x]

\* Truthiness of an optional sequence (a row, a list, a string): None and the
\* empty sequence are falsy.
Truthy(x) == x.present /\ Len(x.v) > 0

NULL == Num("null", 0)

\* Names are sequences of characters.
HR == <<"H", "R">>
Ab == <<"A", "b">>
T1 == <<"T", "1">>
T2 == <<"T", "2">>
T3 == <<"T", "3">>
DR1 == <<"DR$SUP_TEXT_IDX", "1">>

AllUsers == {HR, Ab}

ConnectedUser == HR

\* all_tables, in the order the database returns its rows.
AllTables ==
    << [owner |-> HR, table_name |-> T2], [owner |-> HR, table_name |-> DR1],
       [owner |-> Ab, table_name |-> T1], [owner |-> HR, table_name |-> T1],
       [owner |-> HR, table_name |-> T3], [owner |-> Ab, table_name |-> T2] >>

TableKeys == {AllTables[i] : i \in DOMAIN AllTables}

TableKey(own, tab) == [owner |-> own, table_name |-> tab]

\* all_constraints joined with all_cons_columns.
AllConstraints ==
    { [owner |-> HR, table_name |-> T1, constraint_type |-> "P", status |-> "ENABLED",
       cols |-> {[column_name |-> "K2", position |-> 2],
                 [column_name |-> "ID", position |-> 1]}],
      [owner |-> HR, table_name |-> T2, constraint_type |-> "P", status |-> "DISABLED",
       cols |-> {[column_name |-> "ID", position |-> 1]}],
      [owner |-> HR, table_name |-> T2, constraint_type |-> "U", status |-> "ENABLED",
       cols |-> {[column_name |-> "ID", position |-> 1]}],
      [owner |-> HR, table_name |-> T3, constraint_type |-> "P", status |-> "ENABLED",
       cols |-> {[column_name |-> "TS", position |-> 1],
                 [column_name |-> "ID", position |-> 2]}],
      [owner |-> Ab, table_name |-> T1, constraint_type |-> "P", status |-> "ENABLED",
       cols |-> {[column_name |-> "ID", position |-> 1]}] }

\* all_tab_columns: the declared type of each column, as the database reports it.
AllTabColumns ==
    { [owner |-> HR, table_name |-> T1, column_name |-> "ID", data_type |-> <<"NUMBER">>],
      [owner |-> HR, table_name |-> T1, column_name |-> "K2", data_type |-> <<"DATE">>],
      [owner |-> HR, table_name |-> T2, column_name |-> "ID", data_type |-> <<"NUMBER">>],
      [owner |-> HR, table_name |-> T3, column_name |-> "TS",
       data_type |-> <<"TIMESTAMP", "(", "3", ")">>],
      [owner |-> HR, table_name |-> T3, column_name |-> "ID", data_type |-> <<"NUMBER">>],
      [owner |-> Ab, table_name |-> T1, column_name |-> "ID", data_type |-> <<"NUMBER">>],
      [owner |-> Ab, table_name |-> T2, column_name |-> "ID", data_type |-> <<"NUMBER">>] }

\* The rows of each table when the manager is constructed: the values of its
\* first key column.
InitialRows ==
    [k \in TableKeys |->
        IF k = TableKey(HR, T1) THEN {1, 3, 8}
        ELSE IF k = TableKey(HR, T2) THEN {1, 2}
        ELSE IF k = TableKey(HR, T3) THEN {3, 4, 8}
        ELSE IF k = TableKey(Ab, T1) THEN {4, 7}
        ELSE IF k = TableKey(Ab, T2) THEN {6}
        ELSE {}]

UpperChar(c) ==
    CASE c = "a" -> "A" [] c = "b" -> "B" [] c = "h" -> "H" [] c = "r" -> "R"
      [] c = "x" -> "X" [] OTHER -> c

Upper(name) == [i \in DOMAIN name |-> UpperChar(name[i])]

SetMin(S) == CHOOSE x \in S : \A y \in S : x <= y

SetMax(S) == CHOOSE x \in S : \A y \in S : x >= y

\* SELECT MIN(col) / MAX(col): an aggregate always yields one row, whose value
\* is NULL over no rows.
FetchOneMin(own, tab) ==
    Present(<<IF rows[TableKey(own, tab)] = {} THEN NULL
              ELSE Num("int", SetMin(rows[TableKey(own, tab)]))>>)

FetchOneMax(own, tab) ==
    Present(<<IF rows[TableKey(own, tab)] = {} THEN NULL
              ELSE Num("int", SetMax(rows[TableKey(own, tab)]))>>)

\* --------------------------------------------------------------- manager
Range(seq) == {seq[i] : i \in DOMAIN seq}

RECURSIVE OrderByPosition(_)
\* ORDER BY cols.position: the column names by ascending key position.
OrderByPosition(cols) ==
    IF cols = {} THEN <<>>
    ELSE LET first == CHOOSE c \in cols : \A d \in cols : c.position <= d.position
         IN <<first.column_name>> \o OrderByPosition(cols \ {first})

\* The rows of the primary-key query for one table (fetchall).
PrimaryKeyRows(own, tab) ==
    OrderByPosition(UNION {c.cols : c \in
        {c \in AllConstraints : /\ own.present
                                /\ c.owner = own.v
                                /\ c.table_name = tab
                                /\ c.constraint_type = "P"
                                /\ c.status = "ENABLED"}})

GetPrimaryKeysKeepsEmptyList(own, tables) ==
    [t \in Range(tables) |-> Present(PrimaryKeyRows(own, t))]

GetPrimaryKeysOfSchema(own, tables) ==
    [t \in {c.table_name : c \in AllConstraints} |->
        IF PrimaryKeyRows(own, t) # <<>>
        THEN Present(PrimaryKeyRows(own, t))
        ELSE Absent]

_get_primary_keys(own, tables) ==
    [t \in Range(tables) |->
        IF PrimaryKeyRows(own, t) # <<>>
        THEN Present(PrimaryKeyRows(own, t))
        ELSE Absent]

\* get_primary_keys(): the map is built by the first call that finds it empty.
get_primary_keys(cache, own, tables) ==
    IF DOMAIN cache = {} THEN _get_primary_keys(own, tables) ELSE cache

\* dict.get(key)
Get(dict, key) == IF key \in DOMAIN dict THEN dict[key] ELSE Absent

_get_column_data_type(own, tab, col) ==
    LET found == {c \in AllTabColumns : /\ own.present
                                        /\ c.owner = own.v
                                        /\ c.table_name = tab
                                        /\ c.column_name = col}
    IN IF found = {} THEN Absent
       ELSE Present(_normalise_oracle_data_type((CHOOSE c \in found : TRUE).data_type))

TableExists(own, tab) == own.present /\ TableKey(own.v, tab) \in TableKeys

\* _get_table_count: SELECT COUNT(*) of the schema-qualified table.
_get_table_count(own, tab) == Cardinality(rows[TableKey(own.v, tab)])

\* LIKE 'DR$SUP_TEXT_IDX%'
LikeTextIndex(name) == StartsWith(name, "DR$SUP_TEXT_IDX")

\* tables = [_[0] for _ in rows]
TableNamesOf(fetched) == [i \in DOMAIN fetched |-> fetched[i].table_name]

SchemaNotFoundError == Raise("SchemaNotFoundError")

NormaliseSchemaFilterExactCase(schema_filter) ==
    IF Truthy(schema_filter)
    THEN IF schema_filter.v \in AllUsers
         THEN Return(schema_filter.v)
         ELSE SchemaNotFoundError
    ELSE Return(ConnectedUser)

\* No two user names are equal up to case (line 168), so the first row by
\* username is the one match.
_normalise_schema_filter(schema_filter) ==
    IF Truthy(schema_filter)
    THEN LET found == {u \in AllUsers : Upper(u) = Upper(schema_filter.v)}
         IN IF found = {}
            THEN SchemaNotFoundError
            ELSE Return(CHOOSE u \in found : TRUE)
    ELSE Return(ConnectedUser)

\* _filter_table_list: a non-empty filter keeps the discovered names that it
\* lists, in discovery order.
_filter_table_list(tables, table_filter) ==
    IF Truthy(table_filter)
    THEN LET Listed(t) == t \in Range(table_filter.v)
         IN SelectSeq(tables, Listed)
    ELSE tables

_build_table_list(schema_filter, table_filter) ==
    LET resolved == _normalise_schema_filter(schema_filter)
        OwnedByResolved(r) ==
            r.owner = resolved.value /\ ~LikeTextIndex(r.table_name)
        OwnedByUser(r) ==
            r.owner = ConnectedUser /\ ~LikeTextIndex(r.table_name)
        tables == IF Truthy(schema_filter)
                  THEN TableNamesOf(SelectSeq(AllTables, OwnedByResolved))
                  ELSE TableNamesOf(SelectSeq(AllTables, OwnedByUser))
    IN IF resolved.tag = "raise" THEN resolved
       ELSE Return(<<resolved.value, _filter_table_list(tables, table_filter)>>)

\* ------------------------------------------------------ manager operations
NoCall == [called |-> FALSE, lo |-> None, hi |-> None, stride |-> None, result |-> None]

NoType == [called |-> FALSE, raw |-> None, norm |-> None, twice |-> None]

\* The locals of a define_read_partitioning call.
Idle ==
    [pc |-> "idle", table |-> <<>>, threshold |-> 0, row_count |-> 0,
     column |-> "", column_datatype |-> Absent,
     lowerbound |-> Absent, upperbound |-> Absent]

\* The last call that ended: its arguments, its outcome and, for
\* define_read_partitioning, the values its queries observed.
Ended(op, args, out) == [op |-> op, args |-> args, out |-> out, seen |-> Idle]

NoRet == Ended("none", <<>>, Return(Absent))

TableNames == {T1, T2, T3}

TableLists == UNION {[1..n -> TableNames] : n \in 0..MaxLen}

Thresholds == 1..MaxThreshold

SchemaFilters ==
    {Absent, Present(<<>>), Present(<<"h", "r">>), Present(<<"A", "B">>),
     Present(Ab), Present(<<"H", "x">>)}

TableFilters == {Absent, Present(<<>>), Present(<<T1, T2>>), Present(<<T3>>)}

\* The manager after construction, over the database as it stands.
ManagerInit ==
    /\ rows = InitialRows
    /\ schema = Absent
    /\ table_list = Absent
    /\ pk_dict = <<>>
    /\ drp = Idle
    /\ conns = 0
    /\ ret = NoRet

Init == np = NoCall /\ dt = NoType /\ ManagerInit

pure == <<np, dt>>

\* build_table_list: discovery under one scoped connection; the resolved
\* schema is kept for the later metadata queries. A manager serves one
\* extraction job: the schema is resolved once, before any metadata query.
BuildTableList ==
    /\ drp.pc = "idle"
    /\ ~schema.present
    /\ \E schema_filter \in SchemaFilters, table_filter \in TableFilters :
        LET out == _build_table_list(schema_filter, table_filter)
        IN /\ schema' = IF out.tag = "return" THEN Present(out.value[1]) ELSE schema
           /\ ret' = Ended("build_table_list", <<schema_filter, table_filter>>, out)
    /\ UNCHANGED <<pure, rows, table_list, pk_dict, drp, conns>>

SetTableListDeduplicated(L) ==
    LET keep[i \in 0..Len(L)] ==
            IF i = 0 THEN <<>>
            ELSE IF L[i] \in Range(keep[i - 1]) THEN keep[i - 1]
                 ELSE Append(keep[i - 1], L[i])
    IN keep[Len(L)]

set_table_list(L) == L

\* The table list is set once per manager instance.
SetTableList ==
    /\ drp.pc = "idle"
    /\ ~table_list.present
    /\ \E L \in TableLists :
        /\ table_list' = Present(set_table_list(L))
        /\ ret' = Ended("set_table_list", <<L>>, Return(Absent))
    /\ UNCHANGED <<pure, rows, schema, pk_dict, drp, conns>>

\* The list the manager reads: empty until it is set.
TableList == IF table_list.present THEN table_list.v ELSE <<>>

GetTableList ==
    /\ drp.pc = "idle"
    /\ ret' = Ended("get_table_list", <<>>, Return(TableList))
    /\ UNCHANGED <<pure, rows, schema, table_list, pk_dict, drp, conns>>

GetPrimaryKeys ==
    /\ drp.pc = "idle"
    /\ schema.present
    /\ pk_dict' = get_primary_keys(pk_dict, schema, TableList)
    /\ ret' = Ended("get_primary_keys", <<>>, Return(pk_dict'))
    /\ UNCHANGED <<pure, rows, schema, table_list, drp, conns>>

GetTableListWithCounts ==
    /\ drp.pc = "idle"
    /\ schema.present
    /\ ret' = Ended("get_table_list_with_counts", <<>>,
                     IF \A t \in Range(TableList) : TableExists(schema, t)
                     THEN Return([i \in DOMAIN TableList |->
                                     _get_table_count(schema, TableList[i])])
                     ELSE Raise("DatabaseError"))
    /\ UNCHANGED <<pure, rows, schema, table_list, pk_dict, drp, conns>>

\* define_read_partitioning(table, row_count_threshold), one step per query:
\* the database is shared with other sessions, which may write between two
\* queries of one call.
\* The returned dictionary; its comment names the column's type.
Plan(column, num_partitions, lowerbound, upperbound, column_datatype) ==
    [partition_column |-> column, num_partitions |-> num_partitions,
     lower_bound |-> lowerbound, upper_bound |-> upperbound,
     comment |-> <<"Partitioning by ">> \o column_datatype
                     \o <<" primary key column">>]

\* The call ends: every connection it still holds is released.
DrpReturn(out, locals, held) ==
    /\ ret' = [op |-> "define_read_partitioning",
               args |-> <<drp.table, drp.threshold>>, out |-> out,
               seen |-> locals]
    /\ drp' = Idle
    /\ conns' = conns - held

\* The caller's scoped connection is acquired and the row count fetched.
DrpCall ==
    /\ drp.pc = "idle"
    /\ schema.present
    /\ \E table \in TableNames, row_count_threshold \in Thresholds :
        /\ TableExists(schema, table)
        /\ drp' = [Idle EXCEPT !.pc = "count", !.table = table,
                               !.threshold = row_count_threshold]
    /\ conns' = conns + 1
    /\ ret' = NoRet
    /\ UNCHANGED <<pure, rows, schema, table_list, pk_dict>>

ExceedsThresholdOrEqual(row_count, row_count_threshold) ==
    row_count >= row_count_threshold

ExceedsThreshold(row_count, row_count_threshold) ==
    row_count > row_count_threshold

DrpCount ==
    /\ drp.pc = "count"
    /\ LET row_count == _get_table_count(schema, drp.table)
       IN IF ExceedsThreshold(row_count, drp.threshold)
          THEN /\ drp' = [drp EXCEPT !.pc = "pk", !.row_count = row_count]
               /\ UNCHANGED <<conns, ret>>
          ELSE DrpReturn(Return(Absent), [drp EXCEPT !.row_count = row_count], 1)
    /\ UNCHANGED <<pure, rows, schema, table_list, pk_dict>>

\* get_primary_keys() finds the map empty and acquires a connection to build it.
DrpPrimaryKeysConnect ==
    /\ drp.pc = "pk"
    /\ IF DOMAIN pk_dict = {}
       THEN drp' = [drp EXCEPT !.pc = "pk_scan"] /\ conns' = conns + 1
       ELSE drp' = [drp EXCEPT !.pc = "pk_get"] /\ UNCHANGED conns
    /\ UNCHANGED <<pure, rows, schema, table_list, pk_dict, ret>>

DrpPrimaryKeysScan ==
    /\ drp.pc = "pk_scan"
    /\ pk_dict' = get_primary_keys(pk_dict, schema, TableList)
    /\ drp' = [drp EXCEPT !.pc = "pk_get"]
    /\ conns' = conns - 1
    /\ UNCHANGED <<pure, rows, schema, table_list, ret>>

PartitionColumnLast(primary_key) == primary_key[Len(primary_key)]

PartitionColumn(primary_key) == primary_key[1]

\* if self.get_primary_keys().get(table): column = ...get(table)[0]
DrpPrimaryKeyGet ==
    /\ drp.pc = "pk_get"
    /\ LET primary_key == Get(get_primary_keys(pk_dict, schema, TableList), drp.table)
       IN IF Truthy(primary_key)
          THEN /\ drp' = [drp EXCEPT !.pc = "type",
                                     !.column = PartitionColumn(primary_key.v)]
               /\ UNCHANGED <<conns, ret>>
          ELSE DrpReturn(Return(Absent), drp, 1)
    /\ UNCHANGED <<pure, rows, schema, table_list, pk_dict>>

\* _get_column_data_type is called without the caller's connection and
\* acquires its own.
DrpColumnTypeConnect ==
    /\ drp.pc = "type"
    /\ drp' = [drp EXCEPT !.pc = "type_query"]
    /\ conns' = conns + 1
    /\ UNCHANGED <<pure, rows, schema, table_list, pk_dict, ret>>

IsNumberOrAnyType(column_datatype) == column_datatype.present

IsNumber(column_datatype) ==
    column_datatype.present /\ column_datatype.v = <<"NUMBER">>

DrpColumnTypeQuery ==
    /\ drp.pc = "type_query"
    /\ LET column_datatype == _get_column_data_type(schema, drp.table, drp.column)
       IN IF IsNumber(column_datatype)
          THEN /\ drp' = [drp EXCEPT !.pc = "min",
                                     !.column_datatype = column_datatype]
               /\ conns' = conns - 1
               /\ UNCHANGED ret
          ELSE DrpReturn(Return(Absent),
                         [drp EXCEPT !.column_datatype = column_datatype], 2)
    /\ UNCHANGED <<pure, rows, schema, table_list, pk_dict>>

DrpMin ==
    /\ drp.pc = "min"
    /\ drp' = [drp EXCEPT !.pc = "max",
                          !.lowerbound = FetchOneMin(schema.v, drp.table)]
    /\ UNCHANGED <<pure, rows, schema, table_list, pk_dict, conns, ret>>

\* if lowerbound and upperbound: the truthiness of the two fetched rows.
BothBounds(lowerbound, upperbound) == Truthy(lowerbound) /\ Truthy(upperbound)

DrpMax ==
    /\ drp.pc = "max"
    /\ LET lowerbound == drp.lowerbound
           upperbound == FetchOneMax(schema.v, drp.table)
           locals == [drp EXCEPT !.upperbound = upperbound]
       IN IF BothBounds(lowerbound, upperbound)
          THEN LET num_partitions ==
                       _read_partitioning_num_partitions(
                           lowerbound.v[1], upperbound.v[1],
                           Num("int", drp.threshold))
               IN IF num_partitions.tag = "raise"
                  THEN DrpReturn(num_partitions, locals, 1)
                  ELSE DrpReturn(Return(Present(
                           Plan(drp.column, num_partitions.value,
                                lowerbound.v[1], upperbound.v[1],
                                drp.column_datatype.v))), locals, 1)
          ELSE DrpReturn(Return(Absent), locals, 1)
    /\ UNCHANGED <<pure, rows, schema, table_list, pk_dict>>

\* Another session deletes a row of the table between two queries of the
\* call that read its rows (a deletion at any earlier point after the count
\* is seen by the MIN query in the same way).
ConcurrentDelete ==
    /\ drp.pc \in {"min", "max"}
    /\ \E r \in rows[TableKey(schema.v, drp.table)] :
        rows' = [rows EXCEPT ![TableKey(schema.v, drp.table)] = @ \ {r}]
    /\ UNCHANGED <<pure, schema, table_list, pk_dict, drp, conns, ret>>

Next ==
    \/ BuildTableList
    \/ SetTableList
    \/ GetTableList
    \/ GetPrimaryKeys
    \/ GetTableListWithCounts
    \/ DrpCall
    \/ DrpCount
    \/ DrpPrimaryKeysConnect
    \/ DrpPrimaryKeysScan
    \/ DrpPrimaryKeyGet
    \/ DrpColumnTypeConnect
    \/ DrpColumnTypeQuery
    \/ DrpMin
    \/ DrpMax
    \/ ConcurrentDelete

Spec == Init /\ [][Next]_vars

\* ------------------------------------------------------------- pure specs
InitNum ==
    /\ \E lo \in NumericValues \cup DatetimeValues,
          hi \in NumericValues \cup DatetimeValues,
          stride \in Strides :
            np = [called |-> FALSE, lo |-> lo, hi |-> hi, stride |-> stride,
                  result |-> None]
    /\ dt = NoType
    /\ ManagerInit

ReadPartitioningNumPartitions ==
    /\ ~np.called
    /\ np' = [np EXCEPT !.called = TRUE,
                        !.result = _read_partitioning_num_partitions(
                                       np.lo, np.hi, np.stride)]
    /\ UNCHANGED <<dt, rows, schema, table_list, pk_dict, drp, conns, ret>>

NextNum == ReadPartitioningNumPartitions

SpecNum == InitNum /\ [][NextNum]_vars

InitNorm ==
    /\ np = NoCall
    /\ \E head \in TypeHeads, n \in 0..MaxTypeLen :
        \E tail \in [1..n -> TypeTailSymbols] :
            dt = [called |-> FALSE, raw |-> <<head>> \o tail,
                  norm |-> None, twice |-> None]
    /\ ManagerInit

NormaliseOracleDataType ==
    /\ ~dt.called
    /\ dt' = [dt EXCEPT !.called = TRUE,
                        !.norm = _normalise_oracle_data_type(dt.raw),
                        !.twice = _normalise_oracle_data_type(
                                      _normalise_oracle_data_type(dt.raw))]
    /\ UNCHANGED <<np, rows, schema, table_list, pk_dict, drp, conns, ret>>

NextNorm == NormaliseOracleDataType

SpecNorm == InitNorm /\ [][NextNorm]_vars

\* --------------------------------------------------- claims: pure functions
NumericCall == IsNumeric(np.lo) /\ IsNumeric(np.hi) /\ IsNumeric(np.stride)

Span == Halves(np.hi) - Halves(np.lo)

\* n is ceil(Span / stride): the least n with n * stride >= Span.
IsCeilOfSpan(n) ==
    /\ n * Halves(np.stride) >= Span
    /\ (n - 1) * Halves(np.stride) < Span

\* C3 as stated: for every numeric (lo, hi, stride) with stride > 0 the result
\* is ceil((hi - lo) / stride) and is at least 1.
C3_AsStated ==
    (np.called /\ NumericCall) =>
        /\ np.result.tag = "return"
        /\ IsCeilOfSpan(np.result.value)
        /\ np.result.value >= 1

\* C3 amended: for every numeric (lo, hi, stride) with stride > 0 and
\* hi > lo, whatever the operand subtypes, the result is ceil((hi - lo) /
\* stride), at least 1, and an exact multiple of the stride adds no partition.
C3_CeilWhenHiAboveLo ==
    (np.called /\ NumericCall /\ Span > 0) =>
        /\ np.result.tag = "return"
        /\ IsCeilOfSpan(np.result.value)
        /\ np.result.value >= 1
        /\ (Span % Halves(np.stride) = 0 =>
                np.result.value * Halves(np.stride) = Span)

\* Witness of C3: a mixed-subtype call whose span is not a multiple of the
\* stride has returned more than one partition.
C3_Witness ==
    /\ np.called /\ NumericCall
    /\ np.lo.kind = "int" /\ np.hi.kind = "float" /\ np.stride.kind = "Decimal"
    /\ Span > 0 /\ Span % Halves(np.stride) # 0
    /\ np.result.tag = "return" /\ np.result.value > 1

\* C4: a call over a datetime range raises NotSupportedError, for every
\* stride, and returns no partition count.
C4_DatetimeRaises ==
    (np.called /\ np.lo.kind = "datetime" /\ np.hi.kind = "datetime") =>
        np.result = NotSupportedError

\* Witness of C4: a datetime range was submitted and the call raised.
C4_Witness ==
    /\ np.called /\ np.lo.kind = "datetime" /\ np.hi.kind = "datetime"
    /\ np.lo.n < np.hi.n
    /\ np.result.tag = "raise"

\* Position i of s lies inside an occurrence of "(", digit, ")".
InQualifier(s, i) ==
    \E j \in {i - 2, i - 1, i} :
        /\ j >= 1 /\ j + 2 <= Len(s)
        /\ s[j] = "(" /\ s[j + 1] \in Digits /\ s[j + 2] = ")"

\* s without the positions that lie inside a qualifier, in order.
WithoutQualifiers(s) ==
    LET keep[i \in 0..Len(s)] ==
            IF i = 0 THEN <<>>
            ELSE IF InQualifier(s, i) THEN keep[i - 1]
                 ELSE Append(keep[i - 1], s[i])
    IN keep[Len(s)]

HasQualifier(s) == \E i \in 1..Len(s) : InQualifier(s, i)

InFamily(s) == StartsWith(s, "TIMESTAMP") \/ StartsWith(s, "INTERVAL DAY")

\* Every "(" of s opens a "(", digit, ")" qualifier: none is nested or open.
QualifiersNotNested(s) ==
    \A i \in 1..Len(s) :
        s[i] = "(" => (i + 2 <= Len(s) /\ s[i + 1] \in Digits /\ s[i + 2] = ")")

\* C9 as stated: the result of a TIMESTAMP / INTERVAL DAY string holds no
\* qualifier, every other string is unchanged, and normalising is idempotent
\* for all inputs.
C9_AsStated ==
    dt.called =>
        /\ (InFamily(dt.raw) => ~HasQualifier(dt.norm))
        /\ (~InFamily(dt.raw) => dt.norm = dt.raw)
        /\ dt.twice = dt.norm

\* C9 amended: for a TIMESTAMP / INTERVAL DAY string the result is the input
\* without the qualifiers that occur in it, every other string is unchanged,
\* and normalising is idempotent for every input whose qualifiers are not
\* nested (every "(" opens a "(", digit, ")" group).
C9_NormaliseOnePass ==
    dt.called =>
        /\ (InFamily(dt.raw) => dt.norm = WithoutQualifiers(dt.raw))
        /\ (~InFamily(dt.raw) => dt.norm = dt.raw)
        /\ (QualifiersNotNested(dt.raw) => dt.twice = dt.norm)

\* Witness of C9: an INTERVAL DAY string with two qualifiers was normalised
\* to its words alone.
C9_Witness ==
    /\ dt.called
    /\ dt.raw = <<"INTERVAL DAY", "(", "3", ")", " TO SECOND", "(", "3", ")">>
    /\ dt.norm = <<"INTERVAL DAY", " TO SECOND">>
    /\ dt.twice = dt.norm

\* ------------------------------------------------------ claims: the manager
\* The catalog, read directly.
EnabledPrimaryKeys(own, tab) ==
    {c \in AllConstraints : /\ c.owner = own /\ c.table_name = tab
                            /\ c.constraint_type = "P" /\ c.status = "ENABLED"}

HasPrimaryKey(own, tab) == EnabledPrimaryKeys(own, tab) # {}

KeyColumns(own, tab) == UNION {c.cols : c \in EnabledPrimaryKeys(own, tab)}

FirstKeyColumn(own, tab) ==
    (CHOOSE c \in KeyColumns(own, tab) :
        \A d \in KeyColumns(own, tab) : c.position <= d.position).column_name

DeclaredType(own, tab, col) ==
    (CHOOSE c \in AllTabColumns :
        c.owner = own /\ c.table_name = tab /\ c.column_name = col).data_type

NumericFirstKey(own, tab) ==
    /\ HasPrimaryKey(own, tab)
    /\ DeclaredType(own, tab, FirstKeyColumn(own, tab)) = <<"NUMBER">>

\* A define_read_partitioning call has ended; its table and threshold.
DrpEnded == ret.op = "define_read_partitioning"

DrpTable == ret.args[1]

DrpThreshold == ret.args[2]

\* C1: a call that counted no more rows than the threshold returned absent,
\* whatever the table's primary key, column type and values.
C1_SmallTableAbsent ==
    (DrpEnded /\ ret.seen.row_count <= DrpThreshold) => ret.out = Return(Absent)

\* Witness of C1: a table with a numeric primary key, in the table list, with
\* exactly as many rows as the threshold, was read without partitioning.
C1_Witness ==
    /\ DrpEnded /\ schema.v = HR /\ DrpTable = T1 /\ T1 \in Range(TableList)
    /\ ret.seen.row_count = 3 /\ DrpThreshold = 3
    /\ ret.out = Return(Absent)

\* The plan of C2: the first key column, the observed bounds and the
\* partition count of (lower bound, upper bound, threshold).
ReturnedExpectedPlan ==
    /\ ret.out.tag = "return" /\ ret.out.value.present
    /\ LET plan == ret.out.value.v
       IN /\ plan.partition_column = FirstKeyColumn(schema.v, DrpTable)
          /\ plan.lower_bound = ret.seen.lowerbound.v[1]
          /\ plan.upper_bound = ret.seen.upperbound.v[1]
          /\ plan.upper_bound = Num("int", SetMax(rows[TableKey(schema.v, DrpTable)]))
          /\ plan.lower_bound.n <= SetMin(rows[TableKey(schema.v, DrpTable)])
          /\ Return(plan.num_partitions) =
                 _read_partitioning_num_partitions(
                     plan.lower_bound, plan.upper_bound, Num("int", DrpThreshold))

\* C2 as stated: every table above the threshold with a numeric first
\* primary-key column and resolvable MIN and MAX gets the plan.
C2_AsStated ==
    (/\ DrpEnded
     /\ ret.seen.row_count > DrpThreshold
     /\ NumericFirstKey(schema.v, DrpTable)
     /\ rows[TableKey(schema.v, DrpTable)] # {}) => ReturnedExpectedPlan

\* C2 amended: every table of the working table list that is above the
\* threshold, has a numeric first primary-key column and resolvable MIN and
\* MAX gets the plan.
C2_PlanForListedTable ==
    (/\ DrpEnded
     /\ DrpTable \in Range(TableList)
     /\ ret.seen.row_count > DrpThreshold
     /\ NumericFirstKey(schema.v, DrpTable)
     /\ rows[TableKey(schema.v, DrpTable)] # {}) => ReturnedExpectedPlan

\* Witness of C2: the composite-key table was planned on its first key column
\* with more than one partition.
C2_Witness ==
    /\ DrpEnded /\ schema.v = HR /\ DrpTable = T1 /\ DrpThreshold = 2
    /\ ret.out.tag = "return" /\ ret.out.value.present
    /\ ret.out.value.v = Plan("ID", 4, Num("int", 1), Num("int", 8), <<"NUMBER">>)

\* C5: above the threshold, a table without an enabled primary key, and a
\* table whose first primary-key column is not of type NUMBER, get absent.
C5_NoKeyOrNotNumericAbsent ==
    (/\ DrpEnded
     /\ ret.seen.row_count > DrpThreshold
     /\ ~NumericFirstKey(schema.v, DrpTable)) => ret.out = Return(Absent)

\* Witness of C5: a listed table keyed on a TIMESTAMP(3) column, above the
\* threshold, was read without partitioning after its type was normalised.
C5_Witness ==
    /\ DrpEnded /\ schema.v = HR /\ DrpTable = T3 /\ T3 \in Range(TableList)
    /\ ret.seen.row_count > DrpThreshold
    /\ ret.seen.column = "TS"
    /\ ret.seen.column_datatype = Present(<<"TIMESTAMP">>)
    /\ ret.out = Return(Absent)

\* A bound was fetched and holds no value.
BoundMissing(bound) == bound.present /\ bound.v[1] = NULL

\* C6 as stated: a call whose MIN or MAX query yielded no value returned
\* absent, and so did not hand a missing bound to the partition count.
C6_AsStated ==
    (DrpEnded /\ (BoundMissing(ret.seen.lowerbound) \/ BoundMissing(ret.seen.upperbound)))
        => ret.out = Return(Absent)

\* The sequence lists the key columns of the table by ascending position.
InKeyOrder(columns, own, tab) ==
    /\ Len(columns) = Cardinality(KeyColumns(own, tab))
    /\ \A i \in DOMAIN columns :
        \E c \in KeyColumns(own, tab) :
            /\ c.column_name = columns[i]
            /\ Cardinality({d \in KeyColumns(own, tab) : d.position < c.position}) = i - 1

\* C7: get_primary_keys returns one entry per table of the working table
\* list: the key columns by position for a table with an enabled primary key,
\* the absent marker (never an empty sequence) for any other.
C7_PrimaryKeyMap ==
    ret.op = "get_primary_keys" =>
        LET map == ret.out.value
        IN /\ DOMAIN map = Range(TableList)
           /\ \A t \in DOMAIN map :
                IF HasPrimaryKey(schema.v, t)
                THEN map[t].present /\ InKeyOrder(map[t].v, schema.v, t)
                ELSE map[t] = Absent

\* Witness of C7: a map with a composite key in position order and a table
\* whose only primary key is disabled.
C7_Witness ==
    /\ ret.op = "get_primary_keys" /\ schema.v = HR
    /\ DOMAIN ret.out.value = {T1, T2}
    /\ ret.out.value[T1] = Present(<<"ID", "K2">>)
    /\ ret.out.value[T2] = Absent

OwnedTables(own) ==
    {AllTables[i].table_name : i \in {j \in DOMAIN AllTables : AllTables[j].owner = own}}

\* C8: a filter that matches no user name case-insensitively fails with
\* SchemaNotFoundError and resolves no schema; a matching filter resolves to
\* the user's name as stored and lists tables of that schema only; no filter
\* resolves to the connected user and lists that user's tables only. Without
\* a table filter every owned table but the text-index tables is listed.
C8_BuildTableList ==
    ret.op = "build_table_list" =>
        LET schema_filter == ret.args[1]
            table_filter == ret.args[2]
            matches == {u \in AllUsers :
                           Truthy(schema_filter) /\ Upper(u) = Upper(schema_filter.v)}
        IN IF Truthy(schema_filter) /\ matches = {}
           THEN ret.out = SchemaNotFoundError /\ ~schema.present
           ELSE /\ ret.out.tag = "return"
                /\ schema = Present(ret.out.value[1])
                /\ IF Truthy(schema_filter)
                   THEN ret.out.value[1] \in matches
                   ELSE ret.out.value[1] = ConnectedUser
                /\ Range(ret.out.value[2]) \subseteq OwnedTables(ret.out.value[1])
                /\ (~Truthy(table_filter) =>
                       Range(ret.out.value[2]) =
                           {t \in OwnedTables(ret.out.value[1]) : ~LikeTextIndex(t)})

\* Witness of C8: a filter in the wrong case resolved to the stored name and
\* the tables of that schema.
C8_Witness ==
    /\ ret.op = "build_table_list"
    /\ ret.args[1] = Present(<<"A", "B">>)
    /\ ret.out = Return(<<Ab, <<T1, T2>>>>)

\* C10: set_table_list(L) stores L as given, get_table_list returns the
\* stored list, and no call but set_table_list changes it.
C10_TableListRoundTrip ==
    [][/\ (ret'.op = "set_table_list" => table_list' = Present(ret'.args[1]))
       /\ (ret'.op = "get_table_list" /\ table_list'.present
              => ret'.out = Return(table_list'.v))
       /\ (table_list' # table_list => ret'.op = "set_table_list")]_vars

\* Witness of C10: a list with a duplicate was read back after primary keys
\* had been collected for it.
C10_Witness ==
    /\ ret.op = "get_table_list"
    /\ table_list = Present(<<T2, T2>>)
    /\ DOMAIN pk_dict = {T2}
    /\ ret.out = Return(<<T2, T2>>)

\* C11 as stated: when no call is in progress no connection is open, and at
\* no point of define_read_partitioning is a connection held open while
\* another one is acquired for the primary-key or the column-type lookup:
\* at most one connection is open at any time.
C11_AsStated ==
    /\ (drp.pc = "idle" => conns = 0)
    /\ conns <= 1

\* C12: a define_read_partitioning call returned a plan only for a table of
\* the working table list; for a table that is not in the list it returned
\* absent without an error, whatever its row count and its primary key.
C12_PlanOnlyForListedTable ==
    DrpEnded =>
        /\ (ret.out.tag = "return" /\ ret.out.value.present
               => DrpTable \in Range(TableList))
        /\ (DrpTable \notin Range(TableList) => ret.out = Return(Absent))

\* Witness of C12: a table above the threshold with a numeric primary key in
\* the database, left out of the list that was set, was read without
\* partitioning after the primary-key map had been built for the list.
C12_Witness ==
    /\ DrpEnded /\ schema.v = HR /\ DrpTable = T1
    /\ table_list.present /\ T1 \notin Range(TableList)
    /\ DOMAIN pk_dict = {T3}
    /\ ret.seen.row_count > DrpThreshold
    /\ NumericFirstKey(HR, T1)
    /\ ret.out = Return(Absent)

====
